---- MODULE Spec2Model ----
(***************************************************************************)
(* Report aggregation and search core of src/app.py: the snapshot store    *)
(* (directory "outputs"), the listing, the loaders and the three           *)
(* calculators (summary, stats, search), each HTTP handler as one action.  *)
(*                                                                         *)
(* Strings that the code inspects character by character (file names,      *)
(* request ids, timestamps, searchable text) are sequences of one-letter   *)
(* strings.  Numbers with decimals (confidence scores, averages) are       *)
(* integers counting hundredths: 0.8 is 80.                                *)
(***************************************************************************)
EXTENDS Integers, Sequences, FiniteSets, TLC

VARIABLES dirExists, files, response, opened, up, scanReversed, tieUp

vars == <<dirExists, files, response, opened, up, scanReversed, tieUp>>

(***************************************************************************)
(* Bounds of the model.                                                    *)
(***************************************************************************)
MaxFiles == 2
MaxMtime == 2
MaxFindings == 3

(***************************************************************************)
(* Character strings.                                                      *)
(***************************************************************************)
Digits == <<"0", "1", "2", "3", "4", "5", "6", "7", "8", "9">>

IsDigit(c) == \E i \in 1..10 : Digits[i] = c

DigitVal(c) == (CHOOSE i \in 1..10 : Digits[i] = c) - 1

\* Code points of the characters a parsed timestamp can hold (str comparison
\* in list.sort compares code points).
Ord(c) ==
    IF c = " " THEN 32
    ELSE IF IsDigit(c) THEN 48 + DigitVal(c)
    ELSE IF c = "_" THEN 95
    ELSE 127

UpperCase == <<"A", "B", "E", "F", "L", "U">>
LowerCase == <<"a", "b", "e", "f", "l", "u">>

\* str.lower() on one character, then on a string
LowerChar(c) ==
    IF \E i \in 1..Len(UpperCase) : UpperCase[i] = c
    THEN LowerCase[CHOOSE i \in 1..Len(UpperCase) : UpperCase[i] = c]
    ELSE c

Lower(s) == [i \in 1..Len(s) |-> LowerChar(s[i])]

StartsWith(s, p) == Len(s) >= Len(p) /\ SubSeq(s, 1, Len(p)) = p

EndsWith(s, p) == Len(s) >= Len(p) /\ SubSeq(s, Len(s) - Len(p) + 1, Len(s)) = p

\* Python's `sub in s`
Contains(s, sub) ==
    \E i \in 0..(Len(s) - Len(sub)) : SubSeq(s, i + 1, i + Len(sub)) = sub

\* Python's `sep.join(parts)`
RECURSIVE Join(_, _)
Join(sep, parts) ==
    IF parts = <<>> THEN <<>>
    ELSE IF Len(parts) = 1 THEN parts[1]
    ELSE parts[1] \o sep \o Join(sep, Tail(parts))

\* Python's `s.replace(old, "")`: every occurrence, left to right
RECURSIVE Replace(_, _)
Replace(s, old) ==
    IF s = <<>> THEN <<>>
    ELSE IF StartsWith(s, old) THEN Replace(SubSeq(s, Len(old) + 1, Len(s)), old)
    ELSE <<s[1]>> \o Replace(Tail(s), old)

\* Python's `s.split("/")`
RECURSIVE Split(_, _)
Split(s, acc) ==
    IF s = <<>> THEN <<acc>>
    ELSE IF s[1] = "/" THEN <<acc>> \o Split(Tail(s), <<>>)
    ELSE Split(Tail(s), Append(acc, s[1]))

\* Lexicographic comparison of two strings by code point: a < b
RECURSIVE StrLess(_, _)
StrLess(a, b) ==
    IF b = <<>> THEN FALSE
    ELSE IF a = <<>> THEN TRUE
    ELSE IF Ord(a[1]) # Ord(b[1]) THEN Ord(a[1]) < Ord(b[1])
    ELSE StrLess(Tail(a), Tail(b))

(***************************************************************************)
(* File names.                                                             *)
(***************************************************************************)
PREFIX == <<"c","o","m","p","l","i","a","n","c","e","_","r","e","p","o","r","t","_">>

JSON_EXT == <<".", "j", "s", "o", "n">>

\* compliance_report_20240101_120000.json
NameJan == PREFIX \o <<"2","0","2","4","0","1","0","1","_","1","2","0","0","0","0">> \o JSON_EXT
\* compliance_report_20240301_090000.json
NameMar == PREFIX \o <<"2","0","2","4","0","3","0","1","_","0","9","0","0","0","0">> \o JSON_EXT
\* compliance_report_202419_000.json (strptime reads it as 2024-01-09 00:00:00)
NameShort == PREFIX \o <<"2","0","2","4","1","9","_","0","0","0">> \o JSON_EXT
\* compliance_report_latest.json
NameLatest == PREFIX \o <<"l","a","t","e","s","t">> \o JSON_EXT
\* not_a_report.json
NameOther == <<"n","o","t","_","a","_","r","e","p","o","r","t">> \o JSON_EXT

Names == {NameJan, NameMar, NameShort, NameLatest, NameOther}

\* A file beside the snapshot directory: <cwd>/secret.json
SecretName == <<"s","e","c","r","e","t">> \o JSON_EXT

DotDot == <<".", ".">>

\* Request ids of /api/report/<filename>
Ids ==
    Names \cup
    { DotDot,
      DotDot \o <<"/">> \o SecretName,
      NameJan \o <<"/">>,
      NameJan \o <<"/">> \o DotDot \o <<"/">> \o DotDot \o <<"/">> \o SecretName }

(***************************************************************************)
(* datetime.strptime(timestamp, "%Y%m%d_%H%M%S") and dt.strftime.          *)
(* The format compiles to the regular expression                           *)
(*   (\d\d\d\d)(1[0-2]|0[1-9]|[1-9])(3[0-1]|[1-2]\d|0[1-9]|[1-9]| [1-9])   *)
(*   _(2[0-3]|[0-1]\d|\d)([0-5]\d|\d)(6[0-1]|[0-5]\d|\d)                   *)
(* matched with backtracking from the start of the string; the first match *)
(* must consume the whole string, and the fields must form a valid date.   *)
(***************************************************************************)
At(s, i) == IF i >= 1 /\ i <= Len(s) THEN s[i] ELSE ""

InRange(c, lo, hi) == IsDigit(c) /\ DigitVal(c) >= lo /\ DigitVal(c) <= hi

Two(c1, c2) == 10 * DigitVal(c1) + DigitVal(c2)

\* The alternatives of field k that match at offset p, in the order the
\* regular expression tries them, each as <<length, value>>.
FieldOptions(k, s, p) ==
    LET c1 == At(s, p + 1)
        c2 == At(s, p + 2)
        two(ok) == IF ok THEN <<(<<2, Two(c1, c2)>>)>> ELSE <<>>
        one(ok) == IF ok THEN <<(<<1, DigitVal(c1)>>)>> ELSE <<>>
    IN  CASE k = 1 ->
               IF \A i \in 1..4 : IsDigit(At(s, p + i))
               THEN <<(<<4, 1000 * DigitVal(At(s, p + 1)) + 100 * DigitVal(At(s, p + 2))
                            + 10 * DigitVal(At(s, p + 3)) + DigitVal(At(s, p + 4))>>)>>
               ELSE <<>>
          [] k = 2 ->
               two((c1 = "1" /\ InRange(c2, 0, 2)) \/ (c1 = "0" /\ InRange(c2, 1, 9)))
               \o one(InRange(c1, 1, 9))
          [] k = 3 ->
               two((c1 = "3" /\ InRange(c2, 0, 1)) \/ (InRange(c1, 1, 2) /\ IsDigit(c2))
                   \/ (c1 = "0" /\ InRange(c2, 1, 9)))
               \o one(InRange(c1, 1, 9))
               \o (IF c1 = " " /\ InRange(c2, 1, 9) THEN <<(<<2, DigitVal(c2)>>)>> ELSE <<>>)
          [] k = 4 -> IF c1 = "_" THEN <<(<<1, 0>>)>> ELSE <<>>
          [] k = 5 ->
               two((c1 = "2" /\ InRange(c2, 0, 3)) \/ (InRange(c1, 0, 1) /\ IsDigit(c2)))
               \o one(IsDigit(c1))
          [] k = 6 ->
               two(InRange(c1, 0, 5) /\ IsDigit(c2)) \o one(IsDigit(c1))
          [] OTHER ->
               two((c1 = "6" /\ InRange(c2, 0, 1)) \/ (InRange(c1, 0, 5) /\ IsDigit(c2)))
               \o one(IsDigit(c1))

NoMatch == [ok |-> FALSE, end |-> 0, vals |-> <<>>]

\* The first match of fields k..7 at offset p, in backtracking order.
RECURSIVE MatchFrom(_, _, _)
MatchFrom(s, k, p) ==
    IF k > 7 THEN [ok |-> TRUE, end |-> p, vals |-> <<>>]
    ELSE LET o == FieldOptions(k, s, p)
             first == IF Len(o) >= 1 THEN MatchFrom(s, k + 1, p + o[1][1]) ELSE NoMatch
             second == IF Len(o) >= 2 THEN MatchFrom(s, k + 1, p + o[2][1]) ELSE NoMatch
         IN  IF first.ok
             THEN [ok |-> TRUE, end |-> first.end, vals |-> <<o[1][2]>> \o first.vals]
             ELSE IF second.ok
             THEN [ok |-> TRUE, end |-> second.end, vals |-> <<o[2][2]>> \o second.vals]
             ELSE NoMatch

IsLeap(y) == (y % 4 = 0 /\ y % 100 # 0) \/ y % 400 = 0

DaysInMonth(y, m) ==
    IF m = 2 THEN (IF IsLeap(y) THEN 29 ELSE 28)
    ELSE IF m \in {4, 6, 9, 11} THEN 30
    ELSE 31

\* [ok, dt]: ok = FALSE stands for ValueError; dt = <<Y, m, d, H, M, S>>
Strptime(s) ==
    LET r == MatchFrom(s, 1, 0)
        v == r.vals
    IN  IF ~r.ok \/ r.end # Len(s) THEN [ok |-> FALSE, dt |-> <<>>]
        ELSE IF v[1] < 1 \/ v[3] > DaysInMonth(v[1], v[2]) \/ v[7] > 59
             THEN [ok |-> FALSE, dt |-> <<>>]
        ELSE [ok |-> TRUE, dt |-> <<v[1], v[2], v[3], v[5], v[6], v[7]>>]

RECURSIVE NumStr(_)
NumStr(n) == IF n < 10 THEN <<Digits[n + 1]>> ELSE NumStr(n \div 10) \o <<Digits[(n % 10) + 1]>>

Pad2(n) == <<Digits[(n \div 10) + 1], Digits[(n % 10) + 1]>>

\* dt.strftime("%Y-%m-%d %H:%M:%S")
Strftime(dt) ==
    NumStr(dt[1]) \o <<"-">> \o Pad2(dt[2]) \o <<"-">> \o Pad2(dt[3]) \o <<" ">>
    \o Pad2(dt[4]) \o <<":">> \o Pad2(dt[5]) \o <<":">> \o Pad2(dt[6])

\* Chronological order of two parsed datetimes: a earlier than b
RECURSIVE TupleLess(_, _)
TupleLess(a, b) ==
    IF a = <<>> THEN FALSE
    ELSE IF a[1] # b[1] THEN a[1] < b[1]
    ELSE TupleLess(Tail(a), Tail(b))

(***************************************************************************)
(* JSON data.  A JSON object is a function from its keys; dict.get is Get. *)
(***************************************************************************)
EmptyDict == [k \in {} |-> 0]

Get(d, k, default) == IF k \in DOMAIN d THEN d[k] ELSE default

\* what is true of a value in `if not report`
Falsy(d) == DOMAIN d = {}

CanonicalStatuses == {"COMPLIANT", "NEEDS_REVIEW", "NON_COMPLIANT", "ERROR"}

Txt_a == <<"a">>
Txt_b == <<"b">>
Txt_Fuel == <<"F", "u", "e", "l">>
Txt_fuel == <<"f", "u", "e", "l">>
Txt_LU == <<"L", "U">>

\* Findings of the snapshot format, with fields present or absent
FindingSet ==
    { [requirement_id |-> Txt_a, requirement_text |-> Txt_Fuel, status |-> "NON_COMPLIANT",
       analysis |-> <<>>, gaps_identified |-> <<Txt_b>>, auditor_questions |-> <<>>,
       confidence_score |-> 90],
      [requirement_id |-> Txt_b, requirement_text |-> Txt_fuel, status |-> "COMPLIANT",
       gaps_identified |-> <<>>, auditor_questions |-> <<Txt_a, Txt_b>>,
       confidence_score |-> 70],
      [requirement_id |-> Txt_a, confidence_score |-> 0],
      [status |-> "ERROR", gaps_identified |-> <<Txt_LU, Txt_a>>, confidence_score |-> 59],
      [status |-> "PENDING", requirement_text |-> Txt_a, analysis |-> Txt_b,
       confidence_score |-> 60],
      [status |-> "NEEDS_REVIEW", auditor_questions |-> <<Txt_Fuel>>, confidence_score |-> 79],
      [status |-> "COMPLIANT", confidence_score |-> 80],
      [status |-> "NON_COMPLIANT", analysis |-> Txt_fuel, confidence_score |-> 75],
      EmptyDict }

SeqsUpTo(S, n) == UNION { [1..k -> S] : k \in 0..n }

GeneratedAt == "2024-03-01T09:00:00"

MkReport(fs) == [metadata |-> [generated_at |-> GeneratedAt], findings |-> fs]

\* Reports the calculators are checked on
Reports ==
    { MkReport(fs) : fs \in SeqsUpTo(FindingSet, MaxFindings) }
    \cup { EmptyDict, [metadata |-> EmptyDict] }

\* What a snapshot file can hold: text that is not JSON, or a JSON object
Malformed == [kind |-> "malformed", value |-> EmptyDict]

Parsed(v) == [kind |-> "json", value |-> v]

StoreContents ==
    { Malformed, Parsed(EmptyDict), Parsed(MkReport(<<>>)),
      Parsed([findings |-> <<[status |-> "COMPLIANT", confidence_score |-> 80]>>]) }

(***************************************************************************)
(* ReportStore                                                             *)
(***************************************************************************)
\* json.load(f) with the decoding error swallowed
JsonLoadOrNone(content) ==
    IF content.kind = "json"
    THEN [tag |-> "value", value |-> content.value]
    ELSE [tag |-> "none", value |-> EmptyDict]

\* json.load(f): a value, or an exception
JsonLoad(content) ==
    IF content.kind = "json"
    THEN [tag |-> "value", value |-> content.value]
    ELSE [tag |-> "raise", value |-> EmptyDict]

ReturnNone == [tag |-> "none", value |-> EmptyDict, file |-> <<>>]

\* output_dir.glob("compliance_report_*.json")
GlobMatches(name) ==
    /\ StartsWith(name, PREFIX)
    /\ EndsWith(name, JSON_EXT)
    /\ Len(name) >= Len(PREFIX) + Len(JSON_EXT)

\* the file names the pattern matches
Matching == { n \in Names : GlobMatches(n) }

Glob == IF dirExists THEN DOMAIN files \cap Matching ELSE {}

\* The order in which the directory yields its entries.  It is a property of
\* the file system, the same at every scan of an unchanged directory: the
\* model takes it to be the order of Names or its reverse (scanReversed).
ScanOrder ==
    LET order == <<NameJan, NameMar, NameShort, NameLatest, NameOther>>
    IN  IF scanReversed
        THEN [i \in 1..Len(order) |-> order[Len(order) + 1 - i]]
        ELSE order

\* json_files = list(output_dir.glob("compliance_report_*.json"))
json_files ==
    LET matching == Glob
    IN  SelectSeq(ScanOrder, LAMBDA n : n \in matching)

\* the files of greatest st_mtime
LatestFiles ==
    LET matching == Glob
    IN  { p \in matching : \A q \in matching : files[q].mtime <= files[p].mtime }

\* max(json_files, key=st_mtime): with equal times, the first of json_files
latest_file ==
    LET candidates == json_files
        newest == LatestFiles
    IN  candidates[CHOOSE i \in DOMAIN candidates :
                      /\ candidates[i] \in newest
                      /\ \A j \in 1..(i - 1) : candidates[j] \notin newest]

\* The outcomes of get_latest_report(): None, the parsed report, or the
\* exception of json.load; `file` is the file it opened
get_latest_report ==
    IF ~dirExists THEN {ReturnNone}
    ELSE IF Glob = {} THEN {ReturnNone}
    ELSE { [tag |-> JsonLoad(files[p].content).tag,
            value |-> JsonLoad(files[p].content).value,
            file |-> p] : p \in {latest_file} }

\* json_file.stem
Stem(name) ==
    LET dots == { i \in 2..Len(name) : name[i] = "." }
    IN  IF dots = {} THEN name
        ELSE SubSeq(name, 1, (CHOOSE i \in dots : \A j \in dots : j <= i) - 1)

\* The descriptor of one globbed file, or <<>> when strptime raises ValueError
Descriptor(name) ==
    LET timestamp == Replace(Stem(name), PREFIX)
        dt == Strptime(timestamp)
    IN  IF dt.ok
        THEN <<[filename |-> name, timestamp |-> timestamp, date |-> Strftime(dt.dt)]>>
        ELSE <<>>

\* The key order of reports.sort(key=timestamp, reverse=True): a goes before b
SortBefore(a, b) == StrLess(b.timestamp, a.timestamp)

\* list.sort is stable: x goes after every element that does not go after it
RECURSIVE Insert(_, _)
Insert(sorted, x) ==
    IF sorted = <<>> THEN <<x>>
    ELSE IF SortBefore(x, sorted[Len(sorted)])
         THEN Append(Insert(SubSeq(sorted, 1, Len(sorted) - 1), x), sorted[Len(sorted)])
         ELSE Append(sorted, x)

RECURSIVE SortReports(_)
SortReports(reports) ==
    IF reports = <<>> THEN <<>>
    ELSE Insert(SortReports(SubSeq(reports, 1, Len(reports) - 1)), reports[Len(reports)])

RECURSIVE AppendDescriptors(_)
AppendDescriptors(order) ==
    IF order = <<>> THEN <<>>
    ELSE Descriptor(order[1]) \o AppendDescriptors(Tail(order))

\* The order in which the loop over glob() meets the matching files
GlobOrders == {json_files}

\* The outcomes of get_all_reports()
get_all_reports ==
    IF ~dirExists THEN {<<>>}
    ELSE { SortReports(AppendDescriptors(o)) : o \in GlobOrders }

(***************************************************************************)
(* Path("outputs") / filename and report_path.exists().  A place is a      *)
(* directory level (1: inside outputs, 0: the working directory, below 0:  *)
(* its ancestors) and a name; the working directory holds "outputs" and    *)
(* one other file, secret.json.                                            *)
(***************************************************************************)
OutputsName == <<"o", "u", "t", "p", "u", "t", "s">>

SecretContent == Parsed([secret |-> TRUE])

NotExists == [exists |-> FALSE, isFile |-> FALSE, level |-> 0, name |-> <<>>]

\* pathlib drops empty and "." components
PathParts(filename) ==
    SelectSeq(Split(filename, <<>>), LAMBDA c : c # <<>> /\ c # <<".">>)

RECURSIVE Walk(_, _)
Walk(parts, level) ==
    IF parts = <<>> THEN [exists |-> TRUE, isFile |-> FALSE, level |-> level, name |-> <<>>]
    ELSE LET c == parts[1]
             rest == Tail(parts)
             file == IF rest = <<>>
                     THEN [exists |-> TRUE, isFile |-> TRUE, level |-> level, name |-> c]
                     ELSE NotExists
         IN  IF c = DotDot THEN Walk(rest, level - 1)
             ELSE IF level = 1 /\ c \in DOMAIN files THEN file
             ELSE IF level = 0 /\ c = SecretName THEN file
             ELSE IF level = 0 /\ c = OutputsName THEN Walk(rest, 1)
             ELSE NotExists

ReportPath(filename) == IF dirExists THEN Walk(PathParts(filename), 1) ELSE NotExists

ContentAt(place) == IF place.level = 1 THEN files[place.name].content ELSE SecretContent

\* The rule '/api/report/<filename>': one non-empty path segment
UrlRuleMatches(filename) ==
    filename # <<>> /\ \A i \in 1..Len(filename) : filename[i] # "/"

(***************************************************************************)
(* Responses                                                               *)
(***************************************************************************)
Ok(body) == [code |-> 200, body |-> body]

NotFoundWith(message) == [code |-> 404, body |-> [error |-> message]]

\* @app.errorhandler(404), for a URL no rule matches
not_found == NotFoundWith("Resource not found")

\* @app.errorhandler(500), for an exception a handler lets escape
internal_error == [code |-> 500, body |-> [error |-> "Internal server error"]]

NoResponse == [op |-> "none", arg |-> <<>>, code |-> 0, body |-> <<>>]

Respond(op, arg, r) == [op |-> op, arg |-> arg, code |-> r.code, body |-> r.body]

OpenedBy(r) == IF r.file = <<>> THEN {} ELSE {<<1, r.file>>}

(***************************************************************************)
(* get_report                                                              *)
(***************************************************************************)
\* get_report without its prefix test
ReportServedAnyName(filename, place) == place.exists

\* the negation of the 404 test of get_report
ReportServed(filename, place) == place.exists /\ StartsWith(filename, PREFIX)

get_report(filename) ==
    LET place == ReportPath(filename)
    IN  IF ~ReportServed(filename, place)
        THEN [res |-> NotFoundWith("Report not found"), opened |-> {}]
        ELSE IF ~place.isFile
             THEN [res |-> internal_error, opened |-> {}]
        ELSE LET data == JsonLoad(ContentAt(place))
             IN  [res |-> IF data.tag = "raise" THEN internal_error ELSE Ok(data.value),
                  opened |-> {<<place.level, place.name>>}]

(***************************************************************************)
(* get_latest                                                              *)
(***************************************************************************)
\* `if not report` in the handlers, report being an outcome of get_latest_report
NoReport(r) == r.tag = "none" \/ Falsy(r.value)

get_latest(r) ==
    IF r.tag = "raise" THEN internal_error
    ELSE IF NoReport(r) THEN NotFoundWith("No reports found")
    ELSE Ok(r.value)

(***************************************************************************)
(* SummaryCalculator and StatsCalculator                                   *)
(***************************************************************************)
HighConfidence == 80
MediumConfidence == 60

\* finding.get("status", "") in place of the ERROR default
StatusOfNoDefault(finding) == Get(finding, "status", "")

\* finding.get("status", "ERROR")
StatusOf(finding) == Get(finding, "status", "ERROR")

\* counting only the keys the dict already holds
IncrementKnown(counts, status) ==
    IF status \in DOMAIN counts
    THEN [counts EXCEPT ![status] = @ + 1]
    ELSE counts

\* counts[status] = counts.get(status, 0) + 1
Increment(counts, status) ==
    [k \in DOMAIN counts \cup {status} |-> IF k = status THEN Get(counts, k, 0) + 1 ELSE counts[k]]

\* The loop's running count of statuses, from `counts`
RECURSIVE CountStatuses(_, _)
CountStatuses(findings, counts) ==
    IF findings = <<>> THEN counts
    ELSE CountStatuses(Tail(findings), Increment(counts, StatusOf(findings[1])))

\* sum of len(finding.get(key, [])) over the findings
RECURSIVE TotalLen(_, _)
TotalLen(findings, key) ==
    IF findings = <<>> THEN 0
    ELSE Len(Get(findings[1], key, <<>>)) + TotalLen(Tail(findings), key)

\* the average taken over every finding, zero scores included
ScoredAlways(confidence) == TRUE

\* whether the summary takes a finding's confidence into the average
Scored(confidence) == confidence > 0

\* confidence_scores: the scores the loop appends
RECURSIVE ConfidenceScores(_)
ConfidenceScores(findings) ==
    IF findings = <<>> THEN <<>>
    ELSE LET confidence == Get(findings[1], "confidence_score", 0)
         IN  (IF Scored(confidence) THEN <<confidence>> ELSE <<>>)
             \o ConfidenceScores(Tail(findings))

RECURSIVE Sum(_)
Sum(xs) == IF xs = <<>> THEN 0 ELSE xs[1] + Sum(Tail(xs))

\* round(num / den, 0) for den > 0: the nearest integer; at a tie the double
\* that num / den became lies on either side of it, so the result is one of
\* the two neighbours, the one the arithmetic of the platform gives (tieUp)
RoundQuotient(num, den) ==
    LET q == num \div den
        r == num % den
    IN  IF 2 * r < den THEN {q}
        ELSE IF 2 * r > den THEN {q + 1}
        ELSE {IF tieUp THEN q + 1 ELSE q}

\* round(avg_confidence, 2), in hundredths
average_confidence(findings) ==
    LET confidence_scores == ConfidenceScores(findings)
    IN  IF confidence_scores # <<>>
        THEN RoundQuotient(Sum(confidence_scores), Len(confidence_scores))
        ELSE {0}

\* the average cut to 2 decimals instead of rounded
avg_per_finding_floor(total, findings) ==
    IF findings # <<>> THEN {(100 * total) \div Len(findings)} ELSE {0}

\* round(total / len(findings), 2) if findings else 0, in hundredths
avg_per_finding(total, findings) ==
    IF findings # <<>> THEN RoundQuotient(100 * total, Len(findings)) ELSE {0}

InitialStatusCounts == [k \in CanonicalStatuses |-> 0]

Summary(report, avg) ==
    LET findings == Get(report, "findings", <<>>)
    IN  [total_requirements |-> Len(findings),
         status_breakdown |-> CountStatuses(findings, InitialStatusCounts),
         total_gaps |-> TotalLen(findings, "gaps_identified"),
         total_questions |-> TotalLen(findings, "auditor_questions"),
         average_confidence |-> avg,
         timestamp |-> Get(Get(report, "metadata", EmptyDict), "generated_at", "")]

get_summary(r, avg) ==
    IF r.tag = "raise" THEN internal_error
    ELSE IF NoReport(r) THEN NotFoundWith("No reports found")
    ELSE Ok(Summary(r.value, avg))

\* the buckets with strict comparisons
BucketStrict(finding) ==
    LET confidence == Get(finding, "confidence_score", 0)
    IN  IF confidence > HighConfidence THEN "high"
        ELSE IF confidence > MediumConfidence THEN "medium"
        ELSE "low"

\* the by_confidence bucket of one finding
Bucket(finding) ==
    LET confidence == Get(finding, "confidence_score", 0)
    IN  IF confidence >= HighConfidence THEN "high"
        ELSE IF confidence >= MediumConfidence THEN "medium"
        ELSE "low"

RECURSIVE CountBuckets(_, _)
CountBuckets(findings, counts) ==
    IF findings = <<>> THEN counts
    ELSE CountBuckets(Tail(findings),
                      [counts EXCEPT ![Bucket(findings[1])] = @ + 1])

Stats(report, gapsAvg, questionsAvg) ==
    LET findings == Get(report, "findings", <<>>)
    IN  [total |-> Len(findings),
         by_status |-> CountStatuses(findings, EmptyDict),
         by_confidence |-> CountBuckets(findings, [high |-> 0, medium |-> 0, low |-> 0]),
         gaps |-> [total |-> TotalLen(findings, "gaps_identified"),
                   avg_per_finding |-> gapsAvg],
         questions |-> [total |-> TotalLen(findings, "auditor_questions"),
                        avg_per_finding |-> questionsAvg]]

get_stats(r, gapsAvg, questionsAvg) ==
    IF r.tag = "raise" THEN internal_error
    ELSE IF NoReport(r) THEN NotFoundWith("No reports found")
    ELSE Ok(Stats(r.value, gapsAvg, questionsAvg))

(***************************************************************************)
(* SearchEngine                                                            *)
(***************************************************************************)
\* the status filter with the ERROR default of the calculators
SkippedByStatusDefaulted(finding, status) ==
    status # "" /\ Get(finding, "status", "ERROR") # status

\* `status and finding.get("status") != status`: the finding is skipped
SkippedByStatus(finding, status) ==
    status # "" /\ ~("status" \in DOMAIN finding /\ finding["status"] = status)

searchable_text(finding) ==
    Lower(Join(<<" ">>,
               <<Get(finding, "requirement_id", <<>>),
                 Get(finding, "requirement_text", <<>>),
                 Get(finding, "analysis", <<>>),
                 Join(<<" ">>, Get(finding, "gaps_identified", <<>>)),
                 Join(<<" ">>, Get(finding, "auditor_questions", <<>>))>>))

\* `query and query not in searchable_text`: the finding is skipped
SkippedByQuery(finding, query) ==
    query # <<>> /\ ~Contains(searchable_text(finding), query)

\* the loop of search_findings: results, in the order appended
RECURSIVE SearchLoop(_, _, _)
SearchLoop(findings, query, status) ==
    IF findings = <<>> THEN <<>>
    ELSE (IF SkippedByStatus(findings[1], status) THEN <<>>
          ELSE IF SkippedByQuery(findings[1], query) THEN <<>>
          ELSE <<findings[1]>>)
         \o SearchLoop(Tail(findings), query, status)

\* q and status are the request's arguments
search_findings(r, q, status) ==
    LET query == Lower(q)
    IN  IF r.tag = "raise" THEN internal_error
        ELSE IF NoReport(r) THEN Ok(<<>>)
        ELSE Ok(SearchLoop(Get(r.value, "findings", <<>>), query, status))

Queries == { <<>>, <<"F", "U">>, <<"a", " ", "b">> }

StatusFilters == {""} \cup CanonicalStatuses

(***************************************************************************)
(* The state machine.  Requests are served one at a time: `response` is    *)
(* the answer being returned to the caller (NoResponse between requests),  *)
(* `opened` the files the request opened, `up` whether the process is      *)
(* serving.  An exception that escapes a handler is answered by            *)
(* internal_error and the process keeps serving.  `scanReversed` and       *)
(* `tieUp` are what the platform fixes: the order in which the directory   *)
(* yields its entries, which stays as it is while the directory is left    *)
(* alone, and the side on which a quotient halfway between two hundredths  *)
(* falls.                                                                  *)
(***************************************************************************)
\* no request is being answered
Idle == response.op = "none"

FileRecs == [mtime : 1..MaxMtime, content : StoreContents]

\* the pairs of file names that give the same sort key (timestamp)
SameSortKey ==
    { pq \in Names \X Names :
         pq[1] # pq[2] /\ Replace(Stem(pq[1]), PREFIX) = Replace(Stem(pq[2]), PREFIX) }

\* Whether a scan of directory fs depends on the order of its entries: two
\* matching files share the greatest st_mtime (max takes the first), or the
\* sort key (the stable sort keeps them as met)
OrderShows(fs) ==
    LET matching == DOMAIN fs \cap Matching
    IN  \E p, q \in matching :
           /\ p # q
           /\ \/ \A n \in matching : /\ fs[n].mtime <= fs[p].mtime
                                     /\ fs[n].mtime <= fs[q].mtime
              \/ <<p, q>> \in SameSortKey

\* The orders a changed directory fs can have; where no scan depends on the
\* order, one stands for both
ScanOrders(fs) == IF OrderShows(fs) THEN BOOLEAN ELSE {FALSE}

\* No content of StoreContents has two scored findings, so no quotient of
\* this specification lies halfway: the rounding side is not observable
Init ==
    /\ dirExists = FALSE
    /\ files = EmptyDict
    /\ response = NoResponse
    /\ opened = {}
    /\ up = TRUE
    /\ scanReversed = FALSE
    /\ tieUp = FALSE

\* The external pipeline creates the snapshot directory
ExternalMkdir ==
    /\ Idle
    /\ ~dirExists
    /\ dirExists' = TRUE
    /\ UNCHANGED <<files, response, opened, up, scanReversed, tieUp>>

\* The external pipeline writes a file into the snapshot directory
ExternalWrite ==
    /\ Idle
    /\ dirExists
    /\ Cardinality(DOMAIN files) < MaxFiles
    /\ \E name \in Names \ DOMAIN files, rec \in FileRecs :
          files' = [n \in DOMAIN files \cup {name} |-> IF n = name THEN rec ELSE files[n]]
    /\ scanReversed' \in ScanOrders(files')
    /\ UNCHANGED <<dirExists, response, opened, up, tieUp>>

\* A file is deleted from outside
ExternalDelete ==
    /\ Idle
    /\ \E name \in DOMAIN files :
          files' = [n \in DOMAIN files \ {name} |-> files[n]]
    /\ scanReversed' \in ScanOrders(files')
    /\ UNCHANGED <<dirExists, response, opened, up, tieUp>>

\* GET /api/reports
list_reports ==
    /\ \E reports \in get_all_reports :
          response' = Respond("listReports", <<>>, Ok(reports))
    /\ opened' = {}
    /\ UNCHANGED <<dirExists, files, up, scanReversed, tieUp>>

\* GET /api/report/<filename>
report_route(filename) ==
    /\ IF UrlRuleMatches(filename)
       THEN LET answer == get_report(filename)
            IN  /\ response' = Respond("getReport", filename, answer.res)
                /\ opened' = answer.opened
       ELSE /\ response' = Respond("getReport", filename, not_found)
            /\ opened' = {}
    /\ UNCHANGED <<dirExists, files, up, scanReversed, tieUp>>

\* GET /api/latest taking the report off the directory as it serves it
latest_route_consuming ==
    /\ \E r \in get_latest_report :
          /\ response' = Respond("getLatest", <<>>, get_latest(r))
          /\ opened' = OpenedBy(r)
          /\ files' = [n \in DOMAIN files \ {r.file} |-> files[n]]
    /\ UNCHANGED <<dirExists, up, scanReversed, tieUp>>

\* GET /api/latest
latest_route ==
    /\ \E r \in get_latest_report :
          /\ response' = Respond("getLatest", <<>>, get_latest(r))
          /\ opened' = OpenedBy(r)
    /\ UNCHANGED <<dirExists, files, up, scanReversed, tieUp>>

\* GET /api/summary
summary_route ==
    /\ \E r \in get_latest_report :
          \E avg \in average_confidence(Get(r.value, "findings", <<>>)) :
             /\ response' = Respond("summarize", <<>>, get_summary(r, avg))
             /\ opened' = OpenedBy(r)
    /\ UNCHANGED <<dirExists, files, up, scanReversed, tieUp>>

\* GET /api/stats
stats_route ==
    /\ \E r \in get_latest_report :
          LET findings == Get(r.value, "findings", <<>>)
          IN  \E gapsAvg \in avg_per_finding(TotalLen(findings, "gaps_identified"), findings),
                 questionsAvg \in avg_per_finding(TotalLen(findings, "auditor_questions"), findings) :
                 /\ response' = Respond("computeStats", <<>>, get_stats(r, gapsAvg, questionsAvg))
                 /\ opened' = OpenedBy(r)
    /\ UNCHANGED <<dirExists, files, up, scanReversed, tieUp>>

\* GET /api/search?q=<q>&status=<status>, r being what get_latest_report()
\* returned
search_answer(r, q, status) ==
    /\ response' = Respond("search", <<q, status>>, search_findings(r, q, status))
    /\ opened' = OpenedBy(r)
    /\ UNCHANGED <<dirExists, files, up, scanReversed, tieUp>>

\* GET /api/search?q=<q>&status=<status>
search_route(q, status) == \E r \in get_latest_report : search_answer(r, q, status)

ListReports == up /\ Idle /\ list_reports

GetReport == up /\ Idle /\ \E filename \in Ids : report_route(filename)

GetLatest == up /\ Idle /\ latest_route

GetSummary == up /\ Idle /\ summary_route

GetStats == up /\ Idle /\ stats_route

Search ==
    /\ up /\ Idle
    /\ \E r \in get_latest_report, q \in Queries, status \in StatusFilters :
          search_answer(r, q, status)

\* The response is returned to the caller; the server takes the next request
Deliver ==
    /\ ~Idle
    /\ response' = NoResponse
    /\ opened' = {}
    /\ UNCHANGED <<dirExists, files, up, scanReversed, tieUp>>

\* The caller sends the request it has just been answered once more: the
\* second of two calls in succession, nothing written in between
Repeat ==
    /\ up /\ ~Idle
    /\ \/ response.op = "listReports" /\ list_reports
       \/ response.op = "getReport" /\ report_route(response.arg)
       \/ response.op = "getLatest" /\ latest_route
       \/ response.op = "summarize" /\ summary_route
       \/ response.op = "computeStats" /\ stats_route
       \/ response.op = "search" /\ search_route(response.arg[1], response.arg[2])

Next ==
    \/ ExternalMkdir
    \/ ExternalWrite
    \/ ExternalDelete
    \/ ListReports
    \/ GetReport
    \/ GetLatest
    \/ GetSummary
    \/ GetStats
    \/ Search
    \/ Deliver
    \/ Repeat

Spec == Init /\ [][Next]_vars

\* The calculators on every report of Reports: one snapshot file holds it,
\* so the order of the directory is not observable
InitCalc ==
    /\ dirExists = TRUE
    /\ \E report \in Reports :
          files = [n \in {NameMar} |-> [mtime |-> 1, content |-> Parsed(report)]]
    /\ response = NoResponse
    /\ opened = {}
    /\ up = TRUE
    /\ scanReversed = FALSE
    /\ tieUp \in BOOLEAN

NextCalc ==
    \/ GetSummary
    \/ GetStats
    \/ Search
    \/ Deliver
    \/ Repeat

SpecCalc == InitCalc /\ [][NextCalc]_vars

(***************************************************************************)
(* Properties of the store operations, under Spec.                         *)
(***************************************************************************)
\* a place inside the snapshot directory
InSnapshotDir(o) == o[1] = 1

\* C1: getReport(id) answers with a report only when id is exactly the name of
\* a file lying directly in the snapshot directory and beginning with
\* compliance_report_, and then with that file's content; every other id,
\* with or without path separators or ".." segments, is answered NotFound;
\* no file outside the snapshot directory is opened.
C1_GetReportExactName ==
    response.op = "getReport" =>
        LET id == response.arg
            direct == dirExists /\ id \in DOMAIN files /\ StartsWith(id, PREFIX)
        IN  /\ response.code = 200 =>
                  /\ direct
                  /\ files[id].content.kind = "json"
                  /\ response.body = files[id].content.value
            /\ ~direct => response.code = 404
            /\ \A o \in opened : InSnapshotDir(o) /\ o[2] = id

\* not_a_report.json exists in the snapshot directory and is refused
C1_Witness ==
    /\ response.op = "getReport"
    /\ response.arg = NameOther
    /\ NameOther \in DOMAIN files
    /\ files[NameOther].content.kind = "json"
    /\ response.code = 404

\* C5 (as stated): getLatest is NotFound exactly when the directory is absent
\* or holds no file matching compliance_report_*.json; otherwise it returns
\* the parsed content of a matching file of greatest modification time,
\* whatever that content is.
C5_GetLatestWhateverContent ==
    response.op = "getLatest" =>
        IF ~dirExists \/ Glob = {}
        THEN response.code = 404
        ELSE \E p \in LatestFiles :
                /\ opened = {<<1, p>>}
                /\ response.code # 404
                /\ files[p].content.kind = "json" =>
                      response.code = 200 /\ response.body = files[p].content.value

\* the TIMESTAMP segment of compliance_report_<TIMESTAMP>.json
Segment(name) == SubSeq(name, Len(PREFIX) + 1, Len(name) - Len(JSON_EXT))

\* C6 (as stated): listReports returns one descriptor for each file named
\* compliance_report_<TIMESTAMP>.json whose segment parses and none for the
\* others, ordered by the parsed timestamp, most recent first; it is empty,
\* and no error, when the directory is absent or holds no matching file.
C6_ListReportsNewestFirst ==
    response.op = "listReports" =>
        LET body == response.body
            listed == { n \in Glob : Strptime(Segment(n)).ok }
        IN  /\ response.code = 200
            /\ Len(body) = Cardinality(listed)
            /\ { body[i].filename : i \in DOMAIN body } = listed
            /\ \A i, j \in DOMAIN body :
                  i < j => ~TupleLess(Strptime(body[i].timestamp).dt,
                                      Strptime(body[j].timestamp).dt)
            /\ (~dirExists \/ Glob = {}) => body = <<>>

\* the operations that load a snapshot file
LoadingOps == {"getLatest", "getReport", "summarize", "computeStats", "search"}

\* C10: when the file an operation selected is not parseable JSON, the
\* request ends with the load failure (500), not with NotFound and not with
\* report data, and the process keeps serving.
C10_LoadFailureDistinct ==
    \A o \in opened :
        (InSnapshotDir(o) /\ files[o[2]].content.kind = "malformed") =>
            /\ response.op \in LoadingOps
            /\ response.code = 500
            /\ response.code # 404
            /\ response.body = internal_error.body
            /\ up
            /\ ENABLED Deliver

\* search selected a malformed file while a parseable report lies beside it
C10_Witness ==
    /\ response.op = "search"
    /\ response.code = 500
    /\ \E o \in opened : files[o[2]].content.kind = "malformed"
    /\ \E n \in Glob : files[n].content.kind = "json" /\ ~Falsy(files[n].content.value)

(***************************************************************************)
(* Properties of the calculators and of search, under SpecCalc.            *)
(***************************************************************************)
\* the findings of the report the request loaded
ServedFindings ==
    IF opened = {} THEN <<>>
    ELSE Get(files[(CHOOSE o \in opened : TRUE)[2]].content.value, "findings", <<>>)

\* how many findings satisfy P
CountWhere(findings, P(_)) == Cardinality({ i \in DOMAIN findings : P(findings[i]) })

RECURSIVE SumOver(_, _)
SumOver(f, keys) ==
    IF keys = {} THEN 0
    ELSE LET k == CHOOSE x \in keys : TRUE
         IN  f[k] + SumOver(f, keys \ {k})

ScoreOf(finding) == IF "confidence_score" \in DOMAIN finding THEN finding["confidence_score"] ELSE 0

\* x is num / den rounded to the nearest integer
Nearest(x, num, den) ==
    LET d == den * x - num
    IN  2 * (IF d < 0 THEN -d ELSE d) <= den

SummaryAnswered == response.op = "summarize" /\ response.code = 200

StatsAnswered == response.op = "computeStats" /\ response.code = 200

\* C2: the status_breakdown of every summary has the four canonical keys,
\* no negative count, and counts that sum to total_requirements, the number
\* of findings.
C2_BreakdownSumsToTotal ==
    SummaryAnswered =>
        LET breakdown == response.body.status_breakdown
        IN  /\ CanonicalStatuses \subseteq DOMAIN breakdown
            /\ \A k \in DOMAIN breakdown : breakdown[k] >= 0
            /\ SumOver(breakdown, DOMAIN breakdown) = response.body.total_requirements
            /\ response.body.total_requirements = Len(ServedFindings)

\* a summary of three findings, one with an unknown status and one with none
C2_Witness ==
    /\ SummaryAnswered
    /\ Len(ServedFindings) = 3
    /\ \E i \in 1..3 : "status" \notin DOMAIN ServedFindings[i]
    /\ \E i \in 1..3 : "status" \in DOMAIN ServedFindings[i]
                       /\ ServedFindings[i]["status"] \notin CanonicalStatuses

NotOtherCanonical(finding) ==
    "status" \in DOMAIN finding => finding["status"] \notin CanonicalStatuses \ {"ERROR"}

Retained(finding, q, statusFilter) ==
    /\ statusFilter = "" \/ ("status" \in DOMAIN finding /\ finding["status"] = statusFilter)
    /\ q = <<>> \/ Contains(searchable_text(finding), Lower(q))

PositiveScore(finding) == ScoreOf(finding) > 0

PositiveIndexes(findings) == { i \in DOMAIN findings : PositiveScore(findings[i]) }

ScoreAt(findings) == [i \in DOMAIN findings |-> ScoreOf(findings[i])]

\* C7: average_confidence is the mean of the positive confidence scores
\* rounded to 2 decimals, 0 when there is none; scores 0, 0.9, 0.7 give 0.80.
C7_AverageOverPositiveScores ==
    SummaryAnswered =>
        LET positive == PositiveIndexes(ServedFindings)
            total == SumOver(ScoreAt(ServedFindings), positive)
            avg == response.body.average_confidence
        IN  /\ positive = {} => avg = 0
            /\ positive # {} => Nearest(avg, total, Cardinality(positive))
            /\ ScoreAt(ServedFindings) = <<0, 90, 70>> => avg = 80

\* the summary of the scores 0, 0.9, 0.7
C7_Witness ==
    /\ SummaryAnswered
    /\ ScoreAt(ServedFindings) = <<0, 90, 70>>
    /\ response.body.average_confidence = 80

IsHigh(finding) == ScoreOf(finding) >= 80

IsMedium(finding) == ScoreOf(finding) >= 60 /\ ScoreOf(finding) < 80

IsLow(finding) == ScoreOf(finding) < 60

\* C8: every finding falls in exactly one by_confidence bucket: high from
\* 0.8, medium from 0.6 to below 0.8, low below 0.6 (absent and zero scores
\* too), so the three counts sum to total, the number of findings.
C8_ConfidenceBuckets ==
    StatsAnswered =>
        LET buckets == response.body.by_confidence
        IN  /\ buckets.high = CountWhere(ServedFindings, IsHigh)
            /\ buckets.medium = CountWhere(ServedFindings, IsMedium)
            /\ buckets.low = CountWhere(ServedFindings, IsLow)
            /\ buckets.high + buckets.medium + buckets.low = response.body.total
            /\ response.body.total = Len(ServedFindings)

\* stats over scores on both thresholds and an absent score
C8_Witness ==
    /\ StatsAnswered
    /\ Len(ServedFindings) = 3
    /\ ScoreOf(ServedFindings[1]) = 80
    /\ ScoreOf(ServedFindings[2]) = 60
    /\ "confidence_score" \notin DOMAIN ServedFindings[3]
    /\ response.body.by_confidence = [high |-> 1, medium |-> 1, low |-> 1]

\* the request loaded a report the handlers take as present
LoadedReport ==
    /\ opened # {}
    /\ files[(CHOOSE o \in opened : TRUE)[2]].content.kind = "json"
    /\ ~Falsy(files[(CHOOSE o \in opened : TRUE)[2]].content.value)

GapsOf(finding) == IF "gaps_identified" \in DOMAIN finding THEN Len(finding["gaps_identified"]) ELSE 0

QuestionsOf(finding) ==
    IF "auditor_questions" \in DOMAIN finding THEN Len(finding["auditor_questions"]) ELSE 0

C11_ReadsChangeNothing ==
    [][/\ response'.op # "none" => (dirExists' = dirExists /\ files' = files)
       /\ (~Idle /\ response'.op = response.op /\ response'.arg = response.arg) =>
             /\ response'.code = response.code
             /\ response'.body = response.body]_vars

\* getLatest has answered with one of two reports of the same modification
\* time and different content, and the same call can be made again
C11_Witness ==
    /\ response.op = "getLatest"
    /\ response.code = 200
    /\ \E p, q \in LatestFiles :
          /\ p # q
          /\ files[p].content.kind = "json"
          /\ files[q].content # files[p].content
          /\ opened = {<<1, p>>}
    /\ ENABLED Repeat

(***************************************************************************)
(* The three consumers of one report, under SpecCalc.                      *)
(***************************************************************************)
\* the report the request loaded
ServedReport == files[(CHOOSE o \in opened : TRUE)[2]].content.value

\* C12 (as stated): the three consumers of a report agree on each finding's
\* status: for every canonical status s, the number of findings that
\* search(report, query "", statusFilter s) returns equals
\* summarize(report).status_breakdown[s] and computeStats(report).by_status[s]
\* (0 when the key is absent); a finding with no status field counts as ERROR
\* in all three.
C12_ConsumersAgreeOnStatus ==
    (/\ response.op = "search"
     /\ response.arg[1] = <<>>
     /\ response.arg[2] \in CanonicalStatuses
     /\ LoadedReport) =>
        LET s == response.arg[2]
            status_breakdown == Summary(ServedReport, 0).status_breakdown
            by_status == Stats(ServedReport, 0, 0).by_status
        IN  /\ response.code = 200
            /\ Len(response.body) = status_breakdown[s]
            /\ Len(response.body) = Get(by_status, s, 0)

====
